---- MODULE Spec2Model ----
(***************************************************************************)
(* Engine supervisor of the JobHunt desktop shell                          *)
(* (apps/desktop/jobhunt/src-tauri/src/main.rs): sidecar launch, discovery *)
(* of port and shutdown token from the sidecar's log output, and the       *)
(* graceful-shutdown / force-kill sequence run when a window is destroyed. *)
(*                                                                         *)
(* Text is modelled as a sequence of one-character strings.  An Option is  *)
(* a sequence of length at most one: None is <<>>, Some(x) is <<x>>.       *)
(***************************************************************************)
EXTENDS Integers, Sequences, FiniteSets, TLC

\* ------------------------------------------------------------------ bounds
\* output events the drain task receives where their history is recorded
MaxEvents == 4
\* windows of the application
NumWindows == 2
\* close requests the user may issue per window
MaxCloseReqs == 2

\* ------------------------------------------------------------ option type
None == <<>>

Some(x) == <<x>>

IsSome(o) == Len(o) = 1

Unwrap(o) == o[1]

\* ------------------------------------------------------------------- text
Digit == {"0", "1", "2", "3", "4", "5", "6", "7", "8", "9"}

\* char::is_ascii_digit
is_ascii_digit(c) == c \in Digit

DigitVal(c) ==
  CASE c = "0" -> 0 [] c = "1" -> 1 [] c = "2" -> 2 [] c = "3" -> 3
    [] c = "4" -> 4 [] c = "5" -> 5 [] c = "6" -> 6 [] c = "7" -> 7
    [] c = "8" -> 8 [] c = "9" -> 9

\* char::is_whitespace on the characters that occur in the modelled lines
is_whitespace(c) == c \in {" ", "\t", "\n", "\r"}

\* the byte 0xFF is not valid UTF-8; every other modelled byte is ASCII
InvalidByte == "0xFF"

ReplacementChar == "U+FFFD"

\* String::from_utf8_lossy(&bytes).to_string(): invalid bytes are replaced
from_utf8_lossy(bytes) ==
  [i \in 1..Len(bytes) |->
     IF bytes[i] = InvalidByte THEN ReplacementChar ELSE bytes[i]]

\* str::find: index (1-based) of the first occurrence of needle, 0 if none
find(line, needle) ==
  LET hits == {i \in 1..(Len(line) - Len(needle) + 1) :
                 SubSeq(line, i, i + Len(needle) - 1) = needle}
  IN  IF hits = {} THEN 0
      ELSE CHOOSE i \in hits : \A j \in hits : i <= j

\* &line[idx..]: the text after the first idx characters
from(line, idx) == SubSeq(line, idx + 1, Len(line))

RECURSIVE take_while_digit(_)
\* rest.chars().take_while(|c| c.is_ascii_digit()).collect()
take_while_digit(rest) ==
  IF rest = <<>> \/ ~is_ascii_digit(Head(rest)) THEN <<>>
  ELSE <<Head(rest)>> \o take_while_digit(Tail(rest))

U16Max == 65535

RECURSIVE parse_u16_from(_, _)
\* str::parse::<u16>() on a non-empty digit string: checked multiply-add
\* per digit, Err (None) as soon as the accumulator leaves the u16 range
parse_u16_from(acc, digits) ==
  IF digits = <<>> THEN Some(acc)
  ELSE LET nxt == acc * 10 + DigitVal(Head(digits))
       IN  IF nxt > U16Max THEN None
           ELSE parse_u16_from(nxt, Tail(digits))

RECURSIVE wrapping_u16_from(_, _)
wrapping_u16_from(acc, digits) ==
  IF digits = <<>> THEN acc
  ELSE wrapping_u16_from((acc * 10 + DigitVal(Head(digits))) % (U16Max + 1),
                         Tail(digits))

\* a conversion that wraps around instead of failing
parse_u16_wrapping(digits) == Some(wrapping_u16_from(0, digits))

parse_u16(digits) == parse_u16_from(0, digits)

RECURSIVE trim_start(_)
trim_start(s) ==
  IF s = <<>> \/ ~is_whitespace(Head(s)) THEN s ELSE trim_start(Tail(s))

RECURSIVE trim_end(_)
trim_end(s) ==
  IF s = <<>> \/ ~is_whitespace(s[Len(s)]) THEN s
  ELSE trim_end(SubSeq(s, 1, Len(s) - 1))

\* a trim that leaves the end of the text alone
trim_start_only(s) == trim_start(s)

\* str::trim
trim(s) == trim_end(trim_start(s))

PortNeedle ==
  <<"h", "t", "t", "p", ":", "/", "/", "1", "2", "7", ".", "0", ".", "0", ".", "1", ":">>

TokenNeedle ==
  <<"s", "h", "u", "t", "d", "o", "w", "n", "_", "t", "o", "k", "e", "n", "=">>

Line_starting ==
  <<"s", "t", "a", "r", "t", "i", "n", "g", " ", "u", "p">>

Line_listening ==
  <<"e", "n", "g", "i", "n", "e", " ", "l", "i", "s", "t", "e", "n", "i", "n", "g", " ", "o", "n", " ", "h", "t", "t", "p", ":", "/", "/", "1", "2", "7", ".", "0", ".", "0", ".", "1", ":", "9", "0", "0", "0", " ", "f", "o", "r", " ", "r", "e", "q", "u", "e", "s", "t", "s">>

Line_token ==
  <<"s", "h", "u", "t", "d", "o", "w", "n", "_", "t", "o", "k", "e", "n", "=", "d", "e", "a", "d", "b", "e", "e", "f">>

Line_ready ==
  <<"r", "e", "a", "d", "y">>

Line_port38471 ==
  <<"h", "t", "t", "p", ":", "/", "/", "1", "2", "7", ".", "0", ".", "0", ".", "1", ":", "3", "8", "4", "7", "1", "\n">>

Line_overflow ==
  <<"h", "t", "t", "p", ":", "/", "/", "1", "2", "7", ".", "0", ".", "0", ".", "1", ":", "6", "5", "5", "3", "6", "/">>

Line_maxport ==
  <<"x", " ", "h", "t", "t", "p", ":", "/", "/", "1", "2", "7", ".", "0", ".", "0", ".", "1", ":", "6", "5", "5", "3", "5">>

Line_nodigits ==
  <<"h", "t", "t", "p", ":", "/", "/", "1", "2", "7", ".", "0", ".", "0", ".", "1", ":", "/", "x">>

Line_tokenws ==
  <<"s", "h", "u", "t", "d", "o", "w", "n", "_", "t", "o", "k", "e", "n", "=", " ", "\t", "a", "b", "c", "1", "2", "3", " ", "\r", "\n">>

Line_tokenempty ==
  <<"s", "h", "u", "t", "d", "o", "w", "n", "_", "t", "o", "k", "e", "n", "=", " ", "\n">>

Line_both ==
  <<"h", "t", "t", "p", ":", "/", "/", "1", "2", "7", ".", "0", ".", "0", ".", "1", ":", "0", "0", "8", "0", " ", "s", "h", "u", "t", "d", "o", "w", "n", "_", "t", "o", "k", "e", "n", "=", "t", " ", "1", "\n">>

Line_twice ==
  <<"h", "t", "t", "p", ":", "/", "/", "1", "2", "7", ".", "0", ".", "0", ".", "1", ":", "x", " ", "h", "t", "t", "p", ":", "/", "/", "1", "2", "7", ".", "0", ".", "0", ".", "1", ":", "8", "0">>

Line_invalid ==
  <<"s", "h", "u", "t", "d", "o", "w", "n", "_", "t", "o", "k", "e", "n", "=", "a", "0xFF", "b">>

Line_longdigits ==
  <<"h", "t", "t", "p", ":", "/", "/", "1", "2", "7", ".", "0", ".", "0", ".", "1", ":", "6", "5", "5", "3", "5", "9", "9">>

Line_portmid ==
  <<"u", "p", " ", "a", "t", " ", "h", "t", "t", "p", ":", "/", "/", "1", "2", "7", ".", "0", ".", "0", ".", "1", ":", "3", "8", "4", "7", "1", ",", " ", "p", "i", "d", " ", "7">>

Line_tokenfirst ==
  <<"s", "h", "u", "t", "d", "o", "w", "n", "_", "t", "o", "k", "e", "n", "=", "k", " ", "h", "t", "t", "p", ":", "/", "/", "1", "2", "7", ".", "0", ".", "0", ".", "1", ":", "8", "1", "\r", "\n">>

Line_twoports ==
  <<"h", "t", "t", "p", ":", "/", "/", "1", "2", "7", ".", "0", ".", "0", ".", "1", ":", "1", " ", "h", "t", "t", "p", ":", "/", "/", "1", "2", "7", ".", "0", ".", "0", ".", "1", ":", "3", "8", "4", "7", "1">>

\* ----------------------------------------------------------- the extractor
\* fn parse_port_from_line(line: &str) -> Option<u16>
parse_port_from_line(line) ==
  LET at == find(line, PortNeedle)
  IN  IF at = 0 THEN None
      ELSE LET idx    == (at - 1) + Len(PortNeedle)
               rest   == from(line, idx)
               digits == take_while_digit(rest)
           IN  IF digits = <<>> THEN None ELSE parse_u16(digits)

\* fn parse_shutdown_token_from_line(line: &str) -> Option<String>
parse_shutdown_token_from_line(line) ==
  LET at == find(line, TokenNeedle)
  IN  IF at = 0 THEN None
      ELSE LET idx == (at - 1) + Len(TokenNeedle)
           IN  Some(trim(from(line, idx)))

\* ------------------------------------------------------- the output lines
\* every raw output chunk the sidecar may emit, by index
LineTable ==
  << Line_starting, Line_listening, Line_token, Line_ready,
     Line_port38471, Line_overflow, Line_tokenws, Line_both,
     Line_maxport, Line_nodigits, Line_tokenempty, Line_twice,
     Line_invalid, Line_longdigits, Line_portmid, Line_tokenfirst,
     Line_twoports >>

\* lines offered to the drain task when only the drain path is explored
DrainLines == 1..8

\* lines offered to the drain task where the extractor is explored
AllLines == 1..Len(LineTable)

\* lines offered to the drain task while the whole lifecycle is explored
RunLines == {2, 3, 6}

Channels == {"Stdout", "Stderr"}

\* ------------------------------------------------------------------ state
VARIABLES
  phase,      \* position of the setup closure / of the application
  child,      \* EngineState.child : Option<CommandChild>
  childLock,  \* holder of the Mutex around child
  info,       \* EngineState.info : EngineInfo
  infoLock,   \* holder of the Mutex around info
  drain,      \* the output drain task: position and the event in hand
  seen,       \* indices of the lines the drain task has received, in order
  prev,       \* EngineInfo as it was when the last event was received
  startup,    \* how create_dir_all and spawn turned out in setup
  window,     \* per window: "open", "closing", "destroyed"
  closeReqs,  \* per window: close requests delivered so far
  handler,    \* the on_window_event invocation in progress (main thread)
  handled,    \* per window: completed runs of the handler body
  takes,      \* what each take of the child slot returned, in order
  task,       \* per window: the cleanup task spawned by its handler
  posts,      \* shutdown POSTs issued so far
  kills       \* child.kill() calls made so far

vars == << phase, startup, child, childLock, info, infoLock, drain, seen,
           prev, window,
           closeReqs, handler, handled, takes, task, posts, kills >>

Windows == 1..NumWindows

\* EngineInfo::default()
EngineInfoDefault == [port |-> None, shutdown_token |-> None]

DrainUnspawned == [pc |-> "unspawned", kind |-> "none", s |-> <<>>]

DrainAtRecv == [pc |-> "recv", kind |-> "none", s |-> <<>>]

HandlerIdle ==
  [pc |-> "idle", w |-> 0, child_opt |-> None, port |-> None, token |-> None]

NoOutcome == [kind |-> "none", status |-> 0]

NoTask ==
  [pc |-> "none", child |-> None, port |-> None, token |-> None,
   graceful_ok |-> FALSE, outcome |-> NoOutcome, killResult |-> "none"]

\* .manage(EngineState { child: Mutex::new(None), info: ...default() })
Init ==
  /\ phase = "setup"
  /\ child = None
  /\ childLock = "free"
  /\ info = EngineInfoDefault
  /\ infoLock = "free"
  /\ drain = DrainUnspawned
  /\ seen = <<>>
  /\ prev = EngineInfoDefault
  /\ startup = [dir |-> "untried", spawn |-> "untried"]
  /\ window = [w \in Windows |-> "open"]
  /\ closeReqs = [w \in Windows |-> 0]
  /\ handler = HandlerIdle
  /\ handled = [w \in Windows |-> 0]
  /\ takes = <<>>
  /\ task = [w \in Windows |-> NoTask]
  /\ posts = 0
  /\ kills = 0

\* ------------------------------------------------------------------ setup
\* Option::replace as used on the child slot: the new content of the slot
replace(slot, value) == Some(value)

\* a take that hands the content out and leaves it in the slot
take_peek(slot) == [ret |-> slot, left |-> slot]

\* Option::take: what the caller gets and what is left in the slot
take(slot) == [ret |-> slot, left |-> None]

lifecycleVars ==
  << window, closeReqs, handler, handled, takes, task, posts, kills >>

drainVars == << info, infoLock, drain, seen, prev >>

\* std::fs::create_dir_all(&data_dir).unwrap()
SetupCreateDir ==
  /\ phase = "setup"
  /\ \E ok \in BOOLEAN :
       /\ phase' = IF ok THEN "dir_created" ELSE "aborted"
       /\ startup' = [startup EXCEPT !.dir = IF ok THEN "ok" ELSE "failed"]
  /\ UNCHANGED << child, childLock, drainVars, lifecycleVars >>

\* a setup that carries on when the spawn failed
SetupSpawnIgnoresFailure ==
  /\ phase = "dir_created"
  /\ \E ok \in BOOLEAN :
       /\ phase' = "spawned"
       /\ startup' = [startup EXCEPT !.spawn = IF ok THEN "ok" ELSE "failed"]
  /\ UNCHANGED << child, childLock, drainVars, lifecycleVars >>

\* cmd.spawn().expect("failed to spawn engine")
SetupSpawn ==
  /\ phase = "dir_created"
  /\ \E ok \in BOOLEAN :
       /\ phase' = IF ok THEN "spawned" ELSE "aborted"
       /\ startup' = [startup EXCEPT !.spawn = IF ok THEN "ok" ELSE "failed"]
  /\ UNCHANGED << child, childLock, drainVars, lifecycleVars >>

\* tauri::async_runtime::spawn(async move { while let Some(event) = ... })
SetupSpawnDrain ==
  /\ phase = "spawned"
  /\ phase' = "draining"
  /\ drain' = DrainAtRecv
  /\ UNCHANGED << startup, child, childLock, info, infoLock, seen, prev,
                  lifecycleVars >>

\* app.state::<EngineState>().child.lock().unwrap().replace(child); Ok(())
SetupSetChild ==
  /\ phase = "draining"
  /\ childLock = "free"
  /\ child' = replace(child, "engine")
  /\ phase' = "running"
  /\ UNCHANGED << startup, childLock, drainVars, lifecycleVars >>

Setup == SetupCreateDir \/ SetupSpawn \/ SetupSpawnDrain \/ SetupSetChild

\* ------------------------------------------------------- output drain task
\* seen is a history variable.  It is recorded (and the number of events
\* bounded) only where the drain path is explored on its own; elsewhere the
\* drain task receives events without limit.
Record(history, l) ==
  /\ history => Len(seen) < MaxEvents
  /\ seen' = IF history THEN Append(seen, l) ELSE seen
  /\ prev' = IF history THEN info ELSE prev

\* while let Some(event) = rx.recv().await, CommandEvent::Stdout(bytes):
\* let s = String::from_utf8_lossy(&bytes).to_string()
DrainRecvStdout(lines, history) ==
  /\ drain.pc = "recv"
  /\ \E l \in lines :
       /\ drain' = [pc |-> "port", kind |-> "Stdout",
                    s |-> from_utf8_lossy(LineTable[l])]
       /\ Record(history, l)
  /\ UNCHANGED << phase, startup, child, childLock, info, infoLock,
                  lifecycleVars >>

\* CommandEvent::Stderr(bytes): let s = String::from_utf8_lossy(&bytes)...
DrainRecvStderr(lines, history) ==
  /\ drain.pc = "recv"
  /\ \E l \in lines :
       /\ drain' = [pc |-> "port", kind |-> "Stderr",
                    s |-> from_utf8_lossy(LineTable[l])]
       /\ Record(history, l)
  /\ UNCHANGED << phase, startup, child, childLock, info, infoLock,
                  lifecycleVars >>

\* other => println!("[engine] {:?}", other): Error, Terminated, ...
\* (recorded in seen as index 0: an event that carries no output line)
DrainRecvOther(history) ==
  /\ drain.pc = "recv"
  /\ Record(history, 0)
  /\ UNCHANGED << phase, startup, child, childLock, info, infoLock, drain,
                  lifecycleVars >>

\* rx.recv().await yields None: the output channels closed, the loop ends
DrainClosed ==
  /\ drain.pc = "recv"
  /\ drain' = [pc |-> "ended", kind |-> "none", s |-> <<>>]
  /\ UNCHANGED << phase, startup, child, childLock, info, infoLock, seen,
                  prev, lifecycleVars >>

\* if let Some(port) = parse_port_from_line(&s)   (Stdout arm)
StdoutPort(s) == parse_port_from_line(s)

\* if let Some(tok) = parse_shutdown_token_from_line(&s)   (Stdout arm)
StdoutToken(s) == parse_shutdown_token_from_line(s)

\* a Stderr arm that does not look for the port
StderrPortSkipped(s) == None

\* if let Some(port) = parse_port_from_line(&s)   (Stderr arm)
StderrPort(s) == parse_port_from_line(s)

\* if let Some(tok) = parse_shutdown_token_from_line(&s)   (Stderr arm)
StderrToken(s) == parse_shutdown_token_from_line(s)

ArmPort(d) == IF d.kind = "Stdout" THEN StdoutPort(d.s) ELSE StderrPort(d.s)

ArmToken(d) == IF d.kind = "Stdout" THEN StdoutToken(d.s) ELSE StderrToken(d.s)

\* a port step that stores whatever the parser returned, None included
DrainPortLockResets ==
  /\ drain.pc = "port"
  /\ IF IsSome(ArmPort(drain))
       THEN /\ infoLock = "free"
            /\ infoLock' = "drain"
            /\ drain' = [drain EXCEPT !.pc = "port_locked"]
            /\ UNCHANGED info
       ELSE /\ infoLock = "free"
            /\ info' = [info EXCEPT !.port = None]
            /\ drain' = [drain EXCEPT !.pc = "token"]
            /\ UNCHANGED infoLock
  /\ UNCHANGED << phase, startup, child, childLock, seen, prev,
                  lifecycleVars >>

\* if let Some(port) = parse_port_from_line(&s) {
\*   let mut info = state.info.lock().unwrap();
DrainPortLock ==
  /\ drain.pc = "port"
  /\ IF IsSome(ArmPort(drain))
       THEN /\ infoLock = "free"
            /\ infoLock' = "drain"
            /\ drain' = [drain EXCEPT !.pc = "port_locked"]
       ELSE /\ drain' = [drain EXCEPT !.pc = "token"]
            /\ UNCHANGED infoLock
  /\ UNCHANGED << phase, startup, child, childLock, info, seen, prev,
                  lifecycleVars >>

\* a write that keeps a port discovered earlier
DrainPortWriteKeepsFirst ==
  /\ drain.pc = "port_locked"
  /\ info' = IF IsSome(info.port) THEN info
             ELSE [info EXCEPT !.port = Some(Unwrap(ArmPort(drain)))]
  /\ infoLock' = "free"
  /\ drain' = [drain EXCEPT !.pc = "token"]
  /\ UNCHANGED << phase, startup, child, childLock, seen, prev,
                  lifecycleVars >>

\*   info.port = Some(port); }   (the guard is dropped at the brace)
DrainPortWrite ==
  /\ drain.pc = "port_locked"
  /\ info' = [info EXCEPT !.port = Some(Unwrap(ArmPort(drain)))]
  /\ infoLock' = "free"
  /\ drain' = [drain EXCEPT !.pc = "token"]
  /\ UNCHANGED << phase, startup, child, childLock, seen, prev,
                  lifecycleVars >>

\* if let Some(tok) = parse_shutdown_token_from_line(&s) {
\*   let mut info = state.info.lock().unwrap();
DrainTokenLock ==
  /\ drain.pc = "token"
  /\ IF IsSome(ArmToken(drain))
       THEN /\ infoLock = "free"
            /\ infoLock' = "drain"
            /\ drain' = [drain EXCEPT !.pc = "token_locked"]
       ELSE /\ drain' = DrainAtRecv
            /\ UNCHANGED infoLock
  /\ UNCHANGED << phase, startup, child, childLock, info, seen, prev,
                  lifecycleVars >>

\* a write that replaces the whole EngineInfo by one holding the token alone
DrainTokenWriteReplacesInfo ==
  /\ drain.pc = "token_locked"
  /\ info' = [port |-> None,
              shutdown_token |-> Some(Unwrap(ArmToken(drain)))]
  /\ infoLock' = "free"
  /\ drain' = DrainAtRecv
  /\ UNCHANGED << phase, startup, child, childLock, seen, prev,
                  lifecycleVars >>

\* a write that appends the token to the one already stored
DrainTokenWriteAppends ==
  /\ drain.pc = "token_locked"
  /\ info' = [info EXCEPT !.shutdown_token =
                IF IsSome(@) THEN Some(Unwrap(@) \o Unwrap(ArmToken(drain)))
                ELSE Some(Unwrap(ArmToken(drain)))]
  /\ infoLock' = "free"
  /\ drain' = DrainAtRecv
  /\ UNCHANGED << phase, startup, child, childLock, seen, prev,
                  lifecycleVars >>

\*   info.shutdown_token = Some(tok); }   (then back to rx.recv())
DrainTokenWrite ==
  /\ drain.pc = "token_locked"
  /\ info' = [info EXCEPT !.shutdown_token = Some(Unwrap(ArmToken(drain)))]
  /\ infoLock' = "free"
  /\ drain' = DrainAtRecv
  /\ UNCHANGED << phase, startup, child, childLock, seen, prev,
                  lifecycleVars >>

DrainStep ==
  DrainPortLock \/ DrainPortWrite \/ DrainTokenLock \/ DrainTokenWrite

Drain(lines, history) ==
  \/ DrainRecvStdout(lines, history)
  \/ DrainRecvStderr(lines, history)
  \/ DrainRecvOther(history)
  \/ DrainClosed
  \/ DrainStep

\* the drain path alone: setup, then every modelled line on either channel
NextDrain == Setup \/ Drain(DrainLines, TRUE)

SpecDrain == Init /\ [][NextDrain]_vars

\* the extractor at work: setup, then any line of the table, any number of
\* times, on either channel
NextExtract == Setup \/ Drain(AllLines, FALSE)

SpecExtract == Init /\ [][NextExtract]_vars

\* ------------------------------------------------------ the window handler
\* a handler that runs its body on the close request itself
CloseRequestedRunsBody(w) ==
  /\ phase = "running"
  /\ handler.pc = "idle"
  /\ window[w] \in {"open", "closing"}
  /\ closeReqs[w] < MaxCloseReqs
  /\ closeReqs' = [closeReqs EXCEPT ![w] = @ + 1]
  /\ window' = [window EXCEPT ![w] = "closing"]
  /\ handler' = [HandlerIdle EXCEPT !.pc = "lock_child", !.w = w]
  /\ UNCHANGED << phase, startup, child, childLock, drainVars, handled, takes,
                  task, posts, kills >>

\* A close request reaches on_window_event: the event is not Destroyed, so
\* the handler body is skipped; nothing prevents the host's default close.
CloseRequested(w) ==
  /\ phase = "running"
  /\ handler.pc = "idle"
  /\ window[w] \in {"open", "closing"}
  /\ closeReqs[w] < MaxCloseReqs
  /\ closeReqs' = [closeReqs EXCEPT ![w] = @ + 1]
  /\ window' = [window EXCEPT ![w] = "closing"]
  /\ UNCHANGED << phase, startup, child, childLock, drainVars, handler,
                  handled, takes, task, posts, kills >>

\* The host destroyed the window and delivers WindowEvent::Destroyed:
\* if matches!(event, tauri::WindowEvent::Destroyed) { ...
Destroyed(w) ==
  /\ phase = "running"
  /\ handler.pc = "idle"
  /\ window[w] = "closing"
  /\ window' = [window EXCEPT ![w] = "destroyed"]
  /\ handler' = [HandlerIdle EXCEPT !.pc = "lock_child", !.w = w]
  /\ UNCHANGED << phase, startup, child, childLock, drainVars, closeReqs,
                  handled, takes, task, posts, kills >>

\* app.state::<EngineState>().child.lock().unwrap()
HandlerLockChild ==
  /\ handler.pc = "lock_child"
  /\ childLock = "free"
  /\ childLock' = "handler"
  /\ handler' = [handler EXCEPT !.pc = "take"]
  /\ UNCHANGED << phase, startup, child, drainVars, window, closeReqs,
                  handled, takes, task, posts, kills >>

\* let child_opt = ... .take();   (the temporary guard is dropped here)
HandlerTake ==
  /\ handler.pc = "take"
  /\ handler' = [handler EXCEPT !.pc = "lock_info",
                                !.child_opt = take(child).ret]
  /\ child' = take(child).left
  /\ childLock' = "free"
  /\ takes' = Append(takes, take(child).ret)
  /\ UNCHANGED << phase, startup, drainVars, window, closeReqs, handled, task,
                  posts, kills >>

\* let info = state.info.lock().unwrap();
HandlerLockInfo ==
  /\ handler.pc = "lock_info"
  /\ infoLock = "free"
  /\ infoLock' = "handler"
  /\ handler' = [handler EXCEPT !.pc = "snapshot"]
  /\ UNCHANGED << phase, startup, child, childLock, info, drain, seen, prev,
                  window, closeReqs, handled, takes, task, posts, kills >>

\* a snapshot that keeps the guard of the info mutex alive
HandlerSnapshotKeepsLock ==
  /\ handler.pc = "snapshot"
  /\ handler' = [handler EXCEPT !.pc = "spawn",
                                !.port = info.port,
                                !.token = info.shutdown_token]
  /\ UNCHANGED << phase, startup, child, childLock, info, infoLock, drain,
                  seen, prev, window, closeReqs, handled, takes, task, posts,
                  kills >>

\* let port = info.port; let token = info.shutdown_token.clone(); drop(info);
HandlerSnapshot ==
  /\ handler.pc = "snapshot"
  /\ handler' = [handler EXCEPT !.pc = "spawn",
                                !.port = info.port,
                                !.token = info.shutdown_token]
  /\ infoLock' = "free"
  /\ UNCHANGED << phase, startup, child, childLock, info, drain, seen, prev,
                  window, closeReqs, handled, takes, task, posts, kills >>

\* a handler that spawns the cleanup task whether or not it got the child
HandlerSpawnAlways ==
  /\ handler.pc = "spawn"
  /\ task' = [task EXCEPT ![handler.w] =
                [NoTask EXCEPT !.pc = "start",
                               !.child = handler.child_opt,
                               !.port = handler.port,
                               !.token = handler.token]]
  /\ handled' = [handled EXCEPT ![handler.w] = @ + 1]
  /\ handler' = HandlerIdle
  /\ UNCHANGED << phase, startup, child, childLock, drainVars, window,
                  closeReqs, takes, posts, kills >>

\* if let Some(child) = child_opt { tauri::async_runtime::spawn(...) }
HandlerSpawn ==
  /\ handler.pc = "spawn"
  /\ IF IsSome(handler.child_opt)
       THEN task' = [task EXCEPT ![handler.w] =
                       [NoTask EXCEPT !.pc = "start",
                                      !.child = handler.child_opt,
                                      !.port = handler.port,
                                      !.token = handler.token]]
       ELSE UNCHANGED task
  /\ handled' = [handled EXCEPT ![handler.w] = @ + 1]
  /\ handler' = HandlerIdle
  /\ UNCHANGED << phase, startup, child, childLock, drainVars, window,
                  closeReqs, takes, posts, kills >>

Handler ==
  \/ \E w \in Windows : CloseRequested(w) \/ Destroyed(w)
  \/ HandlerLockChild
  \/ HandlerTake
  \/ HandlerLockInfo
  \/ HandlerSnapshot
  \/ HandlerSpawn

\* -------------------------------------------------------- the cleanup task
\* HTTP statuses the shutdown endpoint may answer with
Statuses == {200, 299, 300, 500}

\* a success test with no upper limit
is_success_unbounded(status) == 200 <= status

\* StatusCode::is_success
is_success(status) == 200 <= status /\ status < 300

\* what the POST can end with: a response, or a transport-level error
Outcomes ==
  {[kind |-> "response", status |-> st] : st \in Statuses}
    \cup {[kind |-> "transport_error", status |-> 0]}

\* async fn request_engine_shutdown(port, token) -> Result<(), String>:
\* .send().await.map_err(..)? ; if resp.status().is_success() Ok else Err
request_engine_shutdown(outcome) ==
  IF outcome.kind = "transport_error" THEN "Err"
  ELSE IF is_success(outcome.status) THEN "Ok" ELSE "Err"

\* a decision that looks at the port alone
have_target_port_only(port, token) == IsSome(port)

\* if let (Some(p), Some(t)) = (port, token.as_deref())
have_target(port, token) == IsSome(port) /\ IsSome(token)

\* a fallback that ignores the outcome of the graceful attempt
kill_always(graceful_ok) == TRUE

\* if !graceful_ok
fall_back_to_kill(graceful_ok) == ~graceful_ok

\* a task that decides on the registry as it is now, not on the snapshot
TaskStartReadsRegistry(w) ==
  /\ task[w].pc = "start"
  /\ IF have_target(info.port, info.shutdown_token)
       THEN /\ task' = [task EXCEPT ![w].pc = "awaiting"]
            /\ posts' = posts + 1
       ELSE /\ task' = [task EXCEPT ![w].pc = "decide"]
            /\ UNCHANGED posts
  /\ UNCHANGED << phase, startup, child, childLock, drainVars, window,
                  closeReqs, handler, handled, takes, kills >>

\* let mut graceful_ok = false;
\* if let (Some(p), Some(t)) = (port, token.as_deref()) { POST ... .await
\* } else { eprintln!("... falling back to kill") }
TaskStart(w) ==
  /\ task[w].pc = "start"
  /\ IF have_target(task[w].port, task[w].token)
       THEN /\ task' = [task EXCEPT ![w].pc = "awaiting"]
            /\ posts' = posts + 1
       ELSE /\ task' = [task EXCEPT ![w].pc = "decide"]
            /\ UNCHANGED posts
  /\ UNCHANGED << phase, startup, child, childLock, drainVars, window,
                  closeReqs, handler, handled, takes, kills >>

\* match request_engine_shutdown(p, t).await {
\*   Ok(_) => graceful_ok = true, Err(e) => eprintln!(...) }
RpcReturns(w) ==
  /\ task[w].pc = "awaiting"
  /\ \E o \in Outcomes :
       task' = [task EXCEPT
                  ![w].pc = "decide",
                  ![w].outcome = o,
                  ![w].graceful_ok = (request_engine_shutdown(o) = "Ok")]
  /\ UNCHANGED << phase, startup, child, childLock, drainVars, window,
                  closeReqs, handler, handled, takes, posts, kills >>

NoAnswer == [kind |-> "no_answer", status |-> 0]

\* reqwest::Client::new() sets no timeout: a peer that accepts the
\* connection and never answers leaves .send().await pending for ever
RpcNoAnswer(w) ==
  /\ task[w].pc = "awaiting"
  /\ task' = [task EXCEPT ![w].pc = "hung", ![w].outcome = NoAnswer]
  /\ UNCHANGED << phase, startup, child, childLock, drainVars, window,
                  closeReqs, handler, handled, takes, posts, kills >>

\* if !graceful_ok { let _ = child.kill(); println!("[engine] killed"); }
TaskDecide(w) ==
  /\ task[w].pc = "decide"
  /\ IF fall_back_to_kill(task[w].graceful_ok)
       THEN /\ \E r \in {"ok", "err"} :
                 task' = [task EXCEPT ![w].pc = "done",
                                      ![w].killResult = r,
                                      ![w].child = None]
            /\ kills' = kills + 1
       ELSE /\ task' = [task EXCEPT ![w].pc = "done", ![w].child = None]
            /\ UNCHANGED kills
  /\ UNCHANGED << phase, startup, child, childLock, drainVars, window,
                  closeReqs, handler, handled, takes, posts >>

Task ==
  \E w \in Windows :
    TaskStart(w) \/ RpcReturns(w) \/ RpcNoAnswer(w) \/ TaskDecide(w)

\* ---------------------------------------------------------- specifications
Next == Setup \/ Drain(RunLines, FALSE) \/ Handler \/ Task

Spec == Init /\ [][Next]_vars

\* The async runtime polls every spawned cleanup task until it completes.
\* Nothing obliges the user to ask for a close, the sidecar to write output,
\* or the shutdown endpoint to answer, so no other fairness is assumed.
Fairness ==
  \A w \in Windows :
    WF_vars(TaskStart(w) \/ RpcReturns(w) \/ RpcNoAnswer(w) \/ TaskDecide(w))

FairSpec == Spec /\ Fairness

\* ------------------------------------------------------------------ claims
Tasks == {w \in Windows : task[w].pc # "none"}

BothKnown(w) == IsSome(task[w].port) /\ IsSome(task[w].token)

Answered2xx(w) ==
  /\ task[w].outcome.kind = "response"
  /\ task[w].outcome.status \in 200..299

RpcFailed(w) ==
  \/ task[w].outcome.kind = "transport_error"
  \/ /\ task[w].outcome.kind = "response"
     /\ task[w].outcome.status \notin 200..299

Killed(w) == task[w].killResult # "none"

\* C1: when the snapshot holds both a port and a token and the shutdown
\* POST is answered with a 2xx status, the child is not killed: neither then
\* nor in any later state of the run.
C1_NoKillAfter2xx ==
  \A w \in Windows :
    (w \in Tasks /\ BothKnown(w) /\ Answered2xx(w)) => (kills = 0 /\ ~Killed(w))

C1_Witness ==
  \E w \in Windows :
    /\ task[w].pc = "done"
    /\ BothKnown(w)
    /\ task[w].outcome = [kind |-> "response", status |-> 299]
    /\ kills = 0

\* C2: when the snapshot lacks the port or the token and a child handle was
\* obtained, no shutdown POST is issued and the child is killed.
C2_MissingInfoKillsWithoutPost ==
  \A w \in Windows :
    (w \in Tasks /\ ~BothKnown(w)) =>
      /\ posts = 0
      /\ task[w].outcome.kind = "none"
      /\ task[w].pc \in {"start", "decide", "done"}
      /\ task[w].pc = "done" => (Killed(w) /\ kills = 1)

C2_Witness ==
  \E w \in Windows :
    /\ task[w].pc = "done"
    /\ IsSome(task[w].port)
    /\ ~IsSome(task[w].token)
    /\ Killed(w)
    /\ posts = 0

\* C3: when port and token are both known at the snapshot and the POST ends
\* with a status outside 2xx or with a transport error, the child is killed,
\* and the kill comes after the outcome of the POST is known.
C3_FailedRpcThenKill ==
  \A w \in Windows :
    (w \in Tasks /\ BothKnown(w)) =>
      /\ task[w].pc \in {"start", "awaiting", "hung"} => (kills = 0 /\ ~Killed(w))
      /\ Killed(w) => RpcFailed(w)
      /\ (task[w].pc = "done" /\ RpcFailed(w)) => (Killed(w) /\ kills = 1)

C3_Witness ==
  \E w \in Windows :
    /\ task[w].pc = "done"
    /\ BothKnown(w)
    /\ task[w].outcome = [kind |-> "response", status |-> 500]
    /\ Killed(w)
    /\ posts = 1

\* C4: a close request followed by a second close request for the same
\* window leads to one run of the handler body for that window (one take,
\* one snapshot), one cleanup task at most, one POST at most, one kill at
\* most; the close is not held back, and the window is destroyed once.
C4_TwoCloseRequestsOneCleanup ==
  \A w \in Windows :
    closeReqs[w] >= 2 =>
      /\ window[w] # "open"
      /\ handled[w] <= 1
      /\ (window[w] = "destroyed" /\ handler.pc = "idle") => handled[w] = 1
      /\ Cardinality(Tasks) <= 1
      /\ posts <= 1
      /\ kills <= 1

C4_Witness ==
  \E w \in Windows :
    /\ closeReqs[w] = 2
    /\ window[w] = "destroyed"
    /\ handled[w] = 1
    /\ task[w].pc = "done"

\* C5: the take of the child slot is a destructive read: of all takes, the
\* first returns the handle stored by setup, every later one returns None,
\* and the handle is never in two hands.
Holders ==
  (IF IsSome(child) THEN 1 ELSE 0)
    + (IF IsSome(handler.child_opt) THEN 1 ELSE 0)
    + Cardinality({w \in Windows : IsSome(task[w].child)})

C5_TakeIsDestructive ==
  /\ \A i \in 1..Len(takes) : IsSome(takes[i]) <=> i = 1
  /\ takes # <<>> => child = None
  /\ Holders <= 1

C5_Witness ==
  /\ Len(takes) = 2
  /\ takes[1] = Some("engine")
  /\ takes[2] = None

\* C6: over any number of window events the child is stopped at most once:
\* at most one shutdown POST is issued and at most one kill is performed.
C6_AtMostOnePostOneKill ==
  /\ posts <= 1
  /\ kills <= 1
  /\ Cardinality(Tasks) <= 1

C6_Witness ==
  /\ \A w \in Windows : window[w] = "destroyed" /\ handled[w] = 1
  /\ handler.pc = "idle"
  /\ posts = 1
  /\ kills = 1

\* C7: once a close has started the cleanup task, the task reaches its end
\* whatever the POST and the kill turn out to do (checked under FairSpec).
C7_CleanupEventuallyFinishes ==
  \A w \in Windows : (task[w].pc # "none") ~> (task[w].pc = "done")

CleanupFinished(w) == handled[w] >= 1 /\ task[w].pc \in {"none", "done"}

\* C8: the window does not close before the cleanup started by its close
\* request has finished: a destroyed window implies a finished cleanup.
C8_WindowClosesAfterCleanup ==
  \A w \in Windows : window[w] = "destroyed" => CleanupFinished(w)

\* C9: of all the triggers of the close handler exactly one is told that it
\* flipped the latch and goes on to the take and the snapshot; every other
\* trigger is told the latch was already set and does nothing further.
C9_OneTriggerPassesTheLatch ==
  Cardinality({w \in Windows : handled[w] >= 1}) <= 1

\* a received line as the drain path sees it
Decoded(l) == from_utf8_lossy(LineTable[l])

YieldsPort(l) == l # 0 /\ IsSome(parse_port_from_line(Decoded(l)))

YieldsToken(l) == l # 0 /\ IsSome(parse_shutdown_token_from_line(Decoded(l)))

LastPort(events) ==
  LET idx == {i \in 1..Len(events) : YieldsPort(events[i])}
  IN  IF idx = {} THEN None
      ELSE parse_port_from_line(
             Decoded(events[CHOOSE i \in idx : \A j \in idx : j <= i]))

LastToken(events) ==
  LET idx == {i \in 1..Len(events) : YieldsToken(events[i])}
  IN  IF idx = {} THEN None
      ELSE parse_shutdown_token_from_line(
             Decoded(events[CHOOSE i \in idx : \A j \in idx : j <= i]))

\* C10: last write wins: whenever the drain task is between events, the
\* registry's port is the port of the last received line that yields a port
\* (None if there is none) and its token is the token of the last received
\* line that yields a token (None if there is none); the four lines
\* "starting up", "engine listening on http://127.0.0.1:9000 for requests",
\* "shutdown_token=deadbeef", "ready" end with port 9000, token deadbeef.
C10_LastWriteWins ==
  drain.pc \in {"recv", "ended"} =>
    /\ info.port = LastPort(seen)
    /\ info.shutdown_token = LastToken(seen)
    /\ seen = <<1, 2, 3, 4>> =>
         /\ info.port = Some(9000)
         /\ info.shutdown_token = Some(<<"d", "e", "a", "d", "b", "e", "e", "f">>)

C10_Witness ==
  /\ drain.pc = "recv"
  /\ seen = <<2, 5, 3, 7>>
  /\ info.port = Some(38471)
  /\ info.shutdown_token = Some(<<"a", "b", "c", "1", "2", "3">>)

DrainBetweenEvents == drain.pc \in {"recv", "ended"}

LastSeen == seen[Len(seen)]

\* C11: a line with neither marker leaves both registry fields as they
\* were, a line that yields only a port leaves the token as it was, a line
\* that yields only a token leaves the port as it was, and processing a
\* line never aborts the application.
C11_UnmarkedFieldsUntouched ==
  (DrainBetweenEvents /\ seen # <<>>) =>
    /\ ~YieldsPort(LastSeen) => info.port = prev.port
    /\ ~YieldsToken(LastSeen) => info.shutdown_token = prev.shutdown_token
    /\ phase # "aborted"

C11_Witness ==
  /\ drain.pc = "recv"
  /\ seen = <<2, 3, 1>>
  /\ info.port = Some(9000)
  /\ info.shutdown_token = Some(<<"d", "e", "a", "d", "b", "e", "e", "f">>)
  /\ prev = info

\* C12: receiving the same line twice in a row leaves the registry, after
\* the second time, exactly as it was after the first.
C12_SameLineTwiceIsIdempotent ==
  (DrainBetweenEvents /\ Len(seen) >= 2 /\ seen[Len(seen) - 1] = LastSeen) =>
    info = prev

C12_Witness ==
  /\ drain.pc = "recv"
  /\ seen = <<2, 8, 8>>
  /\ info.port = Some(80)
  /\ info.shutdown_token = Some(<<"t", " ", "1">>)

\* the registry after a line, as the Stdout arm would leave it
ApplyStdout(i, s) ==
  [port |-> IF IsSome(StdoutPort(s)) THEN StdoutPort(s) ELSE i.port,
   shutdown_token |->
     IF IsSome(StdoutToken(s)) THEN StdoutToken(s) ELSE i.shutdown_token]

\* the registry after a line, as the Stderr arm would leave it
ApplyStderr(i, s) ==
  [port |-> IF IsSome(StderrPort(s)) THEN StderrPort(s) ELSE i.port,
   shutdown_token |->
     IF IsSome(StderrToken(s)) THEN StderrToken(s) ELSE i.shutdown_token]

\* C15: whichever channel a line arrived on, the registry ends as either
\* arm would leave it from the same prior state: after the port step the
\* port, and after the whole line both fields, agree with the Stdout arm
\* and with the Stderr arm alike.
C15_ChannelsAgree ==
  /\ drain.pc \in {"token", "token_locked"} =>
       /\ info.port = ApplyStdout(prev, drain.s).port
       /\ info.port = ApplyStderr(prev, drain.s).port
  /\ (DrainBetweenEvents /\ seen # <<>> /\ LastSeen # 0) =>
       /\ info = ApplyStdout(prev, Decoded(LastSeen))
       /\ info = ApplyStderr(prev, Decoded(LastSeen))

C15_Witness ==
  /\ drain.kind = "Stderr"
  /\ drain.pc = "token_locked"
  /\ seen = <<2, 8>>
  /\ prev.port = Some(9000)
  /\ info.port = Some(80)

\* ------------------------------------------------- the extractor, restated
Occurs(line, marker, i) ==
  /\ i + Len(marker) - 1 <= Len(line)
  /\ \A k \in 1..Len(marker) : line[i + k - 1] = marker[k]

\* index of the last character of the first occurrence of marker, 0 if none
MarkerEnd(line, marker) ==
  IF \E i \in 1..Len(line) : Occurs(line, marker, i)
    THEN (CHOOSE i \in 1..Len(line) :
            /\ Occurs(line, marker, i)
            /\ \A j \in 1..(i - 1) : ~Occurs(line, marker, j))
         + Len(marker) - 1
    ELSE 0

\* length of the maximal run of ASCII digits right after index e
DigitRun(line, e) ==
  CHOOSE k \in 0..(Len(line) - e) :
    /\ \A j \in 1..k : line[e + j] \in Digit
    /\ (e + k = Len(line) \/ line[e + k + 1] \notin Digit)

RECURSIVE Decimal(_, _, _)
\* the number written by the digits line[a..b]
Decimal(line, a, b) ==
  IF b < a THEN 0 ELSE Decimal(line, a, b - 1) * 10 + DigitVal(line[b])

RefPort(line) ==
  LET e == MarkerEnd(line, PortNeedle)
  IN  IF e = 0 THEN None
      ELSE LET k == DigitRun(line, e)
           IN  IF k = 0 THEN None
               ELSE IF Decimal(line, e + 1, e + k) > 65535 THEN None
               ELSE Some(Decimal(line, e + 1, e + k))

RefToken(line) ==
  LET e == MarkerEnd(line, TokenNeedle)
  IN  IF e = 0 THEN None
      ELSE LET solid == {i \in (e + 1)..Len(line) :
                          line[i] \notin {" ", "\t", "\n", "\r"}}
           IN  IF solid = {} THEN Some(<<>>)
               ELSE Some(SubSeq(line,
                                CHOOSE i \in solid : \A j \in solid : i <= j,
                                CHOOSE i \in solid : \A j \in solid : j <= i))

LineInHand == drain.pc \in {"port", "port_locked", "token", "token_locked"}

Port38471 == PortNeedle \o <<"3", "8", "4", "7", "1">>

\* http://127.0.0.1:38471 occurs at i and no digit follows it
Has38471At(line, i) ==
  /\ Occurs(line, Port38471, i)
  /\ (i + Len(Port38471) - 1 = Len(line)
        \/ line[i + Len(Port38471)] \notin Digit)

\* C13 as stated: the port is None when the marker http://127.0.0.1: is
\* absent, when no digit follows it or when the digit run denotes more than
\* 65535, and otherwise the value of the run; so every line that contains
\* http://127.0.0.1:38471 followed by a non-digit or the end of the line
\* yields 38471.
C13_AnyOccurrenceOf38471 ==
  LineInHand =>
    /\ parse_port_from_line(drain.s) = RefPort(drain.s)
    /\ (\E i \in 1..Len(drain.s) : Has38471At(drain.s, i))
         => parse_port_from_line(drain.s) = Some(38471)

\* C13, amended: the marker is taken at its first occurrence in the line.
\* The extracted port is None when the marker is absent, when no digit
\* follows its first occurrence, or when the maximal digit run after that
\* occurrence denotes more than 65535; otherwise it is the value of that
\* run, so a line whose first marker starts http://127.0.0.1:38471 followed
\* by a non-digit or the end of the line yields 38471.  The drain task
\* locks and writes the port exactly when there is one, and an overflow
\* does not abort anything.
C13_PortExtraction ==
  LineInHand =>
    /\ parse_port_from_line(drain.s) = RefPort(drain.s)
    /\ drain.pc = "port_locked" => IsSome(RefPort(drain.s))
    /\ (drain.pc \in {"token", "token_locked"} /\ IsSome(RefPort(drain.s)))
         => info.port = RefPort(drain.s)
    /\ (\E i \in 1..Len(drain.s) :
          /\ Has38471At(drain.s, i)
          /\ \A j \in 1..(i - 1) : ~Occurs(drain.s, PortNeedle, j))
         => parse_port_from_line(drain.s) = Some(38471)
    /\ phase # "aborted"

C13_Witness ==
  /\ drain.pc = "token"
  /\ drain.s = Decoded(14)
  /\ parse_port_from_line(drain.s) = None
  /\ info.port = Some(38471)

\* C14: for the line in hand the extracted token is present exactly when
\* the marker shutdown_token= occurs, and is then the rest of the line
\* without its leading and trailing whitespace: empty, not absent, when
\* nothing but whitespace follows the marker.
C14_TokenExtraction ==
  LineInHand =>
    /\ parse_shutdown_token_from_line(drain.s) = RefToken(drain.s)
    /\ drain.pc = "token_locked" => IsSome(RefToken(drain.s))
    /\ drain.s = Decoded(11)
         => parse_shutdown_token_from_line(drain.s) = Some(<<>>)

C14_Witness ==
  /\ drain.pc = "token_locked"
  /\ drain.s = Decoded(11)
  /\ info.shutdown_token = Some(<<"a", "b", "c", "1", "2", "3">>)

StartupFailed == startup.dir = "failed" \/ startup.spawn = "failed"

StartupSucceeded == startup.dir = "ok" /\ startup.spawn = "ok"

\* C16: when creating the working directory or spawning the engine fails,
\* startup aborts: the application is not running, no drain task was
\* started and no child handle is stored; and whenever the application is
\* running (or a drain task or a stored child exists) the directory was
\* created and the spawn succeeded.
C16_StartupAbortsOnFailure ==
  /\ StartupFailed =>
       /\ phase = "aborted"
       /\ drain.pc = "unspawned"
       /\ child = None
       /\ \A w \in Windows : window[w] = "open" /\ task[w].pc = "none"
  /\ phase = "running" => StartupSucceeded
  /\ drain.pc # "unspawned" => StartupSucceeded
  /\ IsSome(child) => StartupSucceeded

C16_Witness ==
  /\ phase = "aborted"
  /\ startup = [dir |-> "ok", spawn |-> "failed"]
  /\ drain.pc = "unspawned"
  /\ child = None

\* the shutdown POST of w's cleanup task is in flight, or its kill is due
InFlight(w) == task[w].pc \in {"awaiting", "hung", "decide"}

SnapshotCopiesRegistry ==
  (handler.pc = "snapshot" /\ handler'.pc = "spawn") =>
    /\ handler'.port = info.port
    /\ handler'.token = info.shutdown_token

\* a cleanup task starts with the snapshot of the handler run that spawns it
\* and keeps it, whatever the drain task writes afterwards
TaskKeepsSnapshot ==
  \A w \in Windows :
    /\ (task[w].pc = "none" /\ task'[w].pc # "none") =>
         /\ task'[w].port = handler.port
         /\ task'[w].token = handler.token
    /\ task[w].pc # "none" =>
         /\ task'[w].port = task[w].port
         /\ task'[w].token = task[w].token

\* whether a POST is issued is decided on the snapshot alone
DecisionOnSnapshot ==
  \A w \in Windows :
    /\ (task[w].pc = "start" /\ task'[w].pc = "awaiting") =>
         (BothKnown(w) /\ posts' = posts + 1)
    /\ (task[w].pc = "start" /\ task'[w].pc = "decide") =>
         (~BothKnown(w) /\ posts' = posts)

\* C18: the snapshot is the registry as the handler finds it under the info
\* lock, so it holds every value the drain task wrote before the close was
\* triggered (unless the drain task has overwritten it since); the port and
\* token of the cleanup task and its choice between POST and kill are fixed
\* by that snapshot, and a later write of the drain task changes neither.
C18_SnapshotFixesTheCleanup ==
  [][SnapshotCopiesRegistry /\ TaskKeepsSnapshot /\ DecisionOnSnapshot]_vars

C18_Witness ==
  \E w \in Windows :
    /\ task[w].pc = "done"
    /\ task[w].port = None
    /\ task[w].token = None
    /\ info.port = Some(9000)
    /\ IsSome(info.shutdown_token)
    /\ posts = 0
    /\ kills = 1

\* takes of the child slot that returned the handle
Obtained == Cardinality({i \in 1..Len(takes) : IsSome(takes[i])})

\* C19: a handler run whose take returns no handle spawns no cleanup task,
\* so it issues no POST and performs no kill, port and token known or not,
\* and has nothing left to do when the handler returns: there are never
\* more cleanup tasks, POSTs or kills than takes that returned the handle,
\* and every cleanup task under way owns the handle.
C19_NoChildNoCleanup ==
  /\ Cardinality(Tasks) <= Obtained
  /\ posts <= Obtained
  /\ kills <= Obtained
  /\ \A w \in Windows :
       task[w].pc \in {"start", "awaiting", "hung", "decide"} =>
         IsSome(task[w].child)

C19_Witness ==
  \E w \in Windows :
    /\ takes = <<Some("engine"), None>>
    /\ handler.pc = "idle"
    /\ handled[w] = 1
    /\ task[w].pc = "none"
    /\ IsSome(info.port)
    /\ IsSome(info.shutdown_token)
    /\ posts = 0
    /\ kills = 0

\* C20: once the registry's port is present it stays present, and likewise
\* the token; no step of the window handler or of a cleanup task changes
\* the registry, and a port step whose line yields no port (an overflowing
\* one included) leaves the registry as it was.
C20_DiscoveredNeverForgotten ==
  [][/\ IsSome(info.port) => IsSome(info'.port)
     /\ IsSome(info.shutdown_token) => IsSome(info'.shutdown_token)
     /\ (handler' # handler \/ task' # task) => info' = info
     /\ (drain.pc = "port" /\ ~IsSome(RefPort(drain.s))) => info' = info
    ]_vars

C20_Witness ==
  /\ drain.pc = "token"
  /\ drain.s = Decoded(6)
  /\ info.port = Some(9000)
  /\ IsSome(info.shutdown_token)

====
